---- MODULE Spec2Model ----
(***************************************************************************)
(* Model of src/src/cli/helpers.js: the configuration aggregation          *)
(* (buildCompleteConfig), the positional option parser (parseOptions),     *)
(* the flag mapping (getMappings, getConvertor) and the argument binder    *)
(* (parseArguments, convert).                                              *)
(*                                                                         *)
(* JavaScript values are records tagged by the field "type":               *)
(*   undefined, null, boolean, integer / fraction / nan (typeof number),   *)
(*   string, array (val: a sequence), object (val: a function from keys    *)
(*   to values, a plain object), function.                                 *)
(* A thrown exception is the record [type |-> "throw", ...].               *)
(***************************************************************************)
EXTENDS Integers, Sequences, FiniteSets, TLC

VARIABLES
    pc,                 \* position of the running call
    applicationConfig,  \* helpers.js:34, what getApplicationConfig returned
    packageJson,        \* helpers.js:52, the project's package.json
    registry,           \* what require(resolve.sync(name)) yields per name
    debug,              \* helpers.js:30, parameter debug
    baseInput,          \* helpers.js:30, parameters config and meta
    pending,            \* the extension names forEach has still to visit
    scanned,            \* whether package.json was required (line 52)
    loaded,             \* the names handed to getExtension, in call order
    finalConfig,        \* helpers.js:31
    finalMeta,          \* helpers.js:32
    usedExtensions,     \* helpers.js:36
    log,                \* what was written with console.log, in order
    given,              \* the arguments of a call of a pure function
    mappings,           \* what getMappings returned
    result              \* the value a call returned, or the exception thrown

vars == <<pc, applicationConfig, packageJson, registry, debug, baseInput,
          pending, scanned, loaded, finalConfig, finalMeta, usedExtensions,
          log, given, mappings, result>>

(***************************************************************************)
(* JavaScript values                                                       *)
(***************************************************************************)
Undefined == [type |-> "undefined"]
Null == [type |-> "null"]
Bool(b) == [type |-> "boolean", val |-> b]
Num(n) == [type |-> "integer", val |-> n]
Fraction(n, d) == [type |-> "fraction", num |-> n, den |-> d]
NaN == [type |-> "nan"]
Str(s) == [type |-> "string", val |-> s]
Arr(s) == [type |-> "array", val |-> s]
Obj(f) == [type |-> "object", val |-> f]
Func(name) == [type |-> "function", val |-> name]
EmptyObj == Obj([k \in {} |-> Undefined])

\* lodash isPlainObject, isBoolean, isString; Array.isArray; Number.isInteger
isPlainObject(v) == v.type = "object"
isBoolean(v) == v.type = "boolean"
isString(v) == v.type = "string"
isArray(v) == v.type = "array"
isInteger(v) == v.type = "integer"

\* ToBoolean: the falsy values are undefined, null, false, 0, NaN and "".
Truthy(v) ==
    CASE v.type \in {"undefined", "null", "nan"} -> FALSE
      [] v.type = "boolean" -> v.val
      [] v.type = "integer" -> v.val # 0
      [] v.type = "string" -> v.val # ""
      [] OTHER -> TRUE

\* Object.keys(o) of a plain object, and the property read o[k]
Keys(o) == DOMAIN o.val
Get(o, k) == IF o.type = "object" /\ k \in DOMAIN o.val THEN o.val[k] ELSE Undefined

(***************************************************************************)
(* merge of ../configuration (DeepMerger): for each key of override, two   *)
(* tree-shaped values are merged recursively, otherwise the override's     *)
(* value replaces the base's; keys only in base persist.                   *)
(***************************************************************************)
RECURSIVE merge(_, _)
merge(base, override) ==
    Obj([k \in Keys(base) \cup Keys(override) |->
            IF k \notin Keys(override) THEN base.val[k]
            ELSE IF k \in Keys(base) /\ isPlainObject(base.val[k])
                                     /\ isPlainObject(override.val[k])
                 THEN merge(base.val[k], override.val[k])
                 ELSE override.val[k]])

(***************************************************************************)
(* validateConfigurationStructure, helpers.js:75-101                       *)
(***************************************************************************)
\* getKeys: the dotted paths of the values that are not plain objects.
\* The code collects them in an array in key order; the model keeps the set.
RECURSIVE getKeys(_, _)
getKeys(obj, oldPath) ==
    UNION {IF isPlainObject(obj.val[key])
           THEN getKeys(obj.val[key], oldPath \o key \o ".")
           ELSE {oldPath \o key} : key \in Keys(obj)}

\* difference with its arguments exchanged
differenceSwapped(a, b) == b \ a

\* lodash difference(a, b): the values of a that are not in b
difference(a, b) == a \ b

\* The line written to the console, or nothing when there is no mismatch.
validateConfigurationStructure(config, appConfig) ==
    LET diff == difference(getKeys(appConfig, ""), getKeys(config, ""))
    IN  IF Cardinality(diff) > 0
        THEN <<[kind |-> "mismatch", paths |-> diff]>>
        ELSE <<>>

(***************************************************************************)
(* getExtension, helpers.js:14-27                                          *)
(***************************************************************************)
\* require(resolve.sync(name)) either throws or yields the module's exports.
Throws(v) == v.type = "throw"

\* The value returned: the two exports (each possibly undefined), or {} when
\* the lookup threw.
getExtension(extensionName) ==
    IF Throws(registry[extensionName])
    THEN EmptyObj
    ELSE Obj([k \in {"baseConfig", "metaConfig"} |->
                 Get(registry[extensionName], k)])

\* The line the catch block writes to the console.
getExtensionLog(extensionName) ==
    IF Throws(registry[extensionName])
    THEN <<[kind |-> "failed", name |-> extensionName]>>
    ELSE <<>>

(***************************************************************************)
(* buildCompleteConfig, helpers.js:30-73                                   *)
(***************************************************************************)
\* line 41: if (baseConfig && metaConfig)
isUsable(extension) ==
    Truthy(Get(extension, "baseConfig")) /\ Truthy(Get(extension, "metaConfig"))

\* the test of line 49 without the length
hasExtensionsIgnoringLength(appConfig) == Truthy(Get(appConfig, "extensions"))

\* line 49: applicationConfig.extensions && applicationConfig.extensions.length
hasExtensions(appConfig) ==
    /\ Truthy(Get(appConfig, "extensions"))
    /\ Len(Get(appConfig, "extensions").val) # 0

\* line 57: /^roc(-.+)/.test(dependency); names hold no line terminators
isRocExtension(dependency) ==
    Len(dependency) >= 5 /\ SubSeq(dependency, 1, 4) = "roc-"

\* Object.keys(x || {}) of a dependency table, in declared order
dependencyNames(table) == IF Truthy(table) THEN table.keys ELSE <<>>

\* lines 53-57: runtime dependencies, then development ones, filtered
scanDependencies(package) ==
    SelectSeq(dependencyNames(package.dependencies)
                  \o dependencyNames(package.devDependencies),
              isRocExtension)

\* lines 49-50: the explicit list is iterated as it is
UseExplicitExtensions ==
    /\ pc = "select"
    /\ hasExtensions(applicationConfig)
    /\ pending' = [i \in 1..Len(Get(applicationConfig, "extensions").val) |->
                      Get(applicationConfig, "extensions").val[i].val]
    /\ pc' = "merge"
    /\ UNCHANGED <<applicationConfig, packageJson, registry, debug, baseInput,
                   scanned, loaded, finalConfig, finalMeta, usedExtensions,
                   log, given, mappings, result>>

\* lines 51-59: package.json is required and its dependencies are scanned
ScanDependencies ==
    /\ pc = "select"
    /\ ~hasExtensions(applicationConfig)
    /\ scanned' = TRUE
    /\ pending' = scanDependencies(packageJson)
    /\ pc' = "merge"
    /\ UNCHANGED <<applicationConfig, packageJson, registry, debug, baseInput,
                   loaded, finalConfig, finalMeta, usedExtensions, log, given,
                   mappings, result>>

\* mergeExtension when a failed lookup ends the loop
mergeExtensionAborting ==
    /\ pc = "merge"
    /\ pending # <<>>
    /\ LET extensionName == Head(pending)
           extension == getExtension(extensionName)
       IN  /\ loaded' = Append(loaded, extensionName)
           /\ log' = log \o getExtensionLog(extensionName)
           /\ IF isUsable(extension)
              THEN /\ usedExtensions' = Append(usedExtensions, extensionName)
                   /\ finalConfig' = merge(finalConfig, Get(extension, "baseConfig"))
                   /\ finalMeta' = merge(finalMeta, Get(extension, "metaConfig"))
                   /\ pending' = Tail(pending)
              ELSE /\ UNCHANGED <<usedExtensions, finalConfig, finalMeta>>
                   /\ pending' = <<>>
    /\ UNCHANGED <<pc, applicationConfig, packageJson, registry, debug,
                   baseInput, scanned, given, mappings, result>>

\* lines 37-46: one call of mergeExtension by forEach
mergeExtension ==
    /\ pc = "merge"
    /\ pending # <<>>
    /\ LET extensionName == Head(pending)
           extension == getExtension(extensionName)
       IN  /\ loaded' = Append(loaded, extensionName)
           /\ log' = log \o getExtensionLog(extensionName)
           /\ IF isUsable(extension)
              THEN /\ usedExtensions' = Append(usedExtensions, extensionName)
                   /\ finalConfig' = merge(finalConfig, Get(extension, "baseConfig"))
                   /\ finalMeta' = merge(finalMeta, Get(extension, "metaConfig"))
              ELSE UNCHANGED <<usedExtensions, finalConfig, finalMeta>>
    /\ pending' = Tail(pending)
    /\ UNCHANGED <<pc, applicationConfig, packageJson, registry, debug,
                   baseInput, scanned, given, mappings, result>>

\* line 61-63: the debug line
usedExtensionsLog ==
    IF Len(usedExtensions) # 0 /\ debug
    THEN <<[kind |-> "used", names |-> usedExtensions]>>
    ELSE <<>>

\* the value returned when the application's tree is the base of the merge
completeConfigOverrideFirst ==
    [extensionConfig |-> finalConfig,
     config |-> merge(applicationConfig, finalConfig),
     meta |-> finalMeta]

\* lines 68-72: the value returned
completeConfig ==
    [extensionConfig |-> finalConfig,
     config |-> merge(finalConfig, applicationConfig),
     meta |-> finalMeta]

\* lines 61-72: after the loop
ReturnCompleteConfig ==
    /\ pc = "merge"
    /\ pending = <<>>
    /\ log' = log \o usedExtensionsLog
                  \o validateConfigurationStructure(finalConfig, applicationConfig)
    /\ result' = completeConfig
    /\ pc' = "done"
    /\ UNCHANGED <<applicationConfig, packageJson, registry, debug, baseInput,
                   pending, scanned, loaded, finalConfig, finalMeta,
                   usedExtensions, given, mappings>>

(***************************************************************************)
(* parseOptions, helpers.js:228-257                                        *)
(***************************************************************************)
\* options[index] of a JavaScript array, index from 0: undefined past the end
ElementAt(array, index) ==
    IF index + 1 \in DOMAIN array THEN array[index + 1] ELSE Undefined

\* option.validation(value): a validation is the set of values it accepts
Validates(validation, value) == value \in validation.accepts

\* the test of line 235 when only an absent value counts as missing
requiredMissingOnlyUndefined(option, value) == option.required /\ value = Undefined

\* lines 235-237: the required option whose value is falsy
requiredMissing(option, value) == option.required /\ ~Truthy(value)

\* lines 239-242: the validation that rejects the value
validationFails(option, value) ==
    Truthy(option.validation) /\ ~Validates(option.validation, value)

\* lines 232-245: forEach from `index` on; the object filled, or the exception
RECURSIVE parseEach(_, _, _, _)
parseEach(declared, options, index, parsedArguments) ==
    IF index >= Len(declared) THEN parsedArguments
    ELSE LET option == declared[index + 1]
             value == ElementAt(options, index)
         IN  IF requiredMissing(option, value)
             THEN [type |-> "throw", error |-> "required", option |-> option.name]
             ELSE IF validationFails(option, value)
             THEN [type |-> "throw", error |-> "validation", option |-> option.name]
             ELSE parseEach(declared, options, index + 1,
                            Obj([k \in Keys(parsedArguments) \cup {option.name} |->
                                    IF k = option.name THEN value
                                    ELSE parsedArguments.val[k]]))

\* line 249: options.splice(start) removes and returns the elements from
\* start on, and leaves the ones before it in the array
spliceStart(options, parsedArguments) == Cardinality(Keys(parsedArguments))
splice(options, start) ==
    IF start >= Len(options) THEN <<>> ELSE SubSeq(options, start + 1, Len(options))
spliceLeft(options, start) ==
    IF start >= Len(options) THEN options ELSE SubSeq(options, 1, start)

\* line 230: meta[command] && meta[command].options
supportsOptions(command, meta) ==
    Truthy(Get(meta, command)) /\ Truthy(Get(Get(meta, command), "options"))

\* The value returned or the exception thrown; `options` is the caller's
\* array after the call.
parseOptions(command, meta, options) ==
    IF supportsOptions(command, meta)
    THEN LET parsed == parseEach(Get(Get(meta, command), "options").val,
                                 options, 0, EmptyObj)
         IN  IF Throws(parsed) THEN parsed
             ELSE [type |-> "return",
                   arguments |-> parsed,
                   rest |-> splice(options, spliceStart(options, parsed)),
                   options |-> spliceLeft(options, spliceStart(options, parsed))]
    ELSE [type |-> "return", arguments |-> Undefined, rest |-> options,
          options |-> options]

(***************************************************************************)
(* Strings: String.prototype.substr and split, parseInt, JSON.parse        *)
(***************************************************************************)
CharAt(s, i) == SubSeq(s, i, i)

\* s.substr(start), start >= 0
substr(s, start) == IF start >= Len(s) THEN "" ELSE SubSeq(s, start + 1, Len(s))

\* s.split(separator) for a separator of one character
RECURSIVE splitFrom(_, _, _, _)
splitFrom(s, separator, i, current) ==
    IF i > Len(s) THEN <<current>>
    ELSE IF CharAt(s, i) = separator
         THEN <<current>> \o splitFrom(s, separator, i + 1, "")
         ELSE splitFrom(s, separator, i + 1, current \o CharAt(s, i))
split(s, separator) == splitFrom(s, separator, 1, "")

Digits == {"0", "1", "2", "3", "4", "5", "6", "7", "8", "9"}
DigitValue(c) ==
    CASE c = "0" -> 0 [] c = "1" -> 1 [] c = "2" -> 2 [] c = "3" -> 3
      [] c = "4" -> 4 [] c = "5" -> 5 [] c = "6" -> 6 [] c = "7" -> 7
      [] c = "8" -> 8 [] c = "9" -> 9

\* The end of the run of digits of s that starts at i (i - 1 when there is none)
RECURSIVE digitsEnd(_, _)
digitsEnd(s, i) ==
    IF i <= Len(s) /\ CharAt(s, i) \in Digits THEN digitsEnd(s, i + 1) ELSE i - 1

\* The number the digits s[from..to] denote
RECURSIVE digitsValue(_, _, _)
digitsValue(s, from, to) ==
    IF to < from THEN 0
    ELSE 10 * digitsValue(s, from, to - 1) + DigitValue(CharAt(s, to))

RECURSIVE skipBlanks(_, _)
skipBlanks(s, i) ==
    IF i <= Len(s) /\ CharAt(s, i) = " " THEN skipBlanks(s, i + 1) ELSE i

\* String(value) of a string or a boolean
toString(value) ==
    IF value.type = "boolean" THEN (IF value.val THEN "true" ELSE "false")
    ELSE value.val

\* parseInt(input, 10): leading blanks, a sign, then the longest run of
\* digits; NaN when there is no digit
parseInt(input) ==
    LET s == toString(input)
        start == skipBlanks(s, 1)
        signed == start <= Len(s) /\ CharAt(s, start) \in {"-", "+"}
        first == IF signed THEN start + 1 ELSE start
        last == digitsEnd(s, first)
    IN  IF last < first THEN NaN
        ELSE IF signed /\ CharAt(s, start) = "-"
             THEN Num(0 - digitsValue(s, first, last))
             ELSE Num(digitsValue(s, first, last))

SyntaxError == [type |-> "throw", error |-> "SyntaxError"]
TypeError == [type |-> "throw", error |-> "TypeError"]

\* JSON.parse of a text without blanks, escapes or nesting: a literal, a
\* number (digits, with an optional sign and an optional fraction), a quoted
\* string, {} ; every other such text is malformed
jsonNumber(s) ==
    LET negative == CharAt(s, 1) = "-"
        first == IF negative THEN 2 ELSE 1
        last == digitsEnd(s, first)
        whole == digitsValue(s, first, last)
        leadingZero == last > first /\ CharAt(s, first) = "0"
        sign == IF negative THEN 0 - 1 ELSE 1
    IN  IF last < first \/ leadingZero THEN SyntaxError
        ELSE IF last = Len(s) THEN Num(sign * whole)
        ELSE IF /\ CharAt(s, last + 1) = "."
                /\ last + 2 <= Len(s)
                /\ digitsEnd(s, last + 2) = Len(s)
             THEN LET places == Len(s) - last - 1
                      scale == IF places = 1 THEN 10 ELSE IF places = 2 THEN 100 ELSE 1000
                      part == digitsValue(s, last + 2, Len(s))
                  IN  IF part = 0 THEN Num(sign * whole)
                      ELSE Fraction(sign * (whole * scale + part), scale)
             ELSE SyntaxError

jsonScalar(s) ==
    IF s = "true" THEN Bool(TRUE)
    ELSE IF s = "false" THEN Bool(FALSE)
    ELSE IF s = "null" THEN Null
    ELSE IF s = "{}" THEN EmptyObj
    ELSE IF s = "" THEN SyntaxError
    ELSE IF CharAt(s, 1) = "\""
         THEN IF /\ Len(s) >= 2
                 /\ CharAt(s, Len(s)) = "\""
                 /\ \A i \in 2..(Len(s) - 1) : CharAt(s, i) \notin {"\"", "\\"}
              THEN Str(SubSeq(s, 2, Len(s) - 1))
              ELSE SyntaxError
    ELSE jsonNumber(s)

\* ... and an array of such values, whose strings hold no comma
JSONparse(input) ==
    LET s == toString(input)
    IN  IF Len(s) >= 2 /\ CharAt(s, 1) = "[" /\ CharAt(s, Len(s)) = "]"
        THEN IF Len(s) = 2 THEN Arr(<<>>)
             ELSE LET texts == split(SubSeq(s, 2, Len(s) - 1), ",")
                      elements == [i \in DOMAIN texts |-> jsonScalar(texts[i])]
                  IN  IF \E i \in DOMAIN elements : Throws(elements[i])
                      THEN SyntaxError
                      ELSE Arr(elements)
        ELSE jsonScalar(s)

(***************************************************************************)
(* getConvertor, helpers.js:283-321                                        *)
(***************************************************************************)
\* Object.keys(value).length of a value that is neither null nor undefined
\* (ES2015: a primitive has no own enumerable keys but a string's indices)
ownKeysLength(value) ==
    CASE value.type = "object" -> Cardinality(Keys(value))
      [] value.type = "array" -> Len(value.val)
      [] value.type = "string" -> Len(value.val)
      [] OTHER -> 0

\* The convertor returned, named by the branch that builds it
getConvertor(value, name) ==
    [type |-> "function",
     default |-> value,
     name |-> name,
     convertor |->
         IF isBoolean(value) THEN "boolean"
         ELSE IF isArray(value) THEN "array"
         ELSE IF isInteger(value) THEN "integer"
         ELSE IF ~isString(value) /\ (~Truthy(value) \/ ownKeysLength(value) = 0)
              THEN "json"
              ELSE "identity"]

\* lines 285-298
convertBoolean(convertor, input) ==
    IF isBoolean(input) THEN input
    ELSE IF input = Str("true") \/ input = Str("false") THEN Bool(input = Str("true"))
    ELSE convertor.default
convertBooleanLog(convertor, input) ==
    IF isBoolean(input) \/ input = Str("true") \/ input = Str("false") THEN <<>>
    ELSE <<[kind |-> "invalid", name |-> convertor.name]>>

\* lines 300-313
convertArray(input) ==
    LET parsed == JSONparse(input)
    IN  IF ~Throws(parsed) /\ isArray(parsed) THEN parsed
        ELSE LET parts == split(toString(input), ",")
             IN  Arr([i \in DOMAIN parts |-> Str(parts[i])])

\* convertor(input): the value returned or the exception thrown
callConvertor(convertor, input) ==
    CASE convertor.convertor = "boolean" -> convertBoolean(convertor, input)
      [] convertor.convertor = "array" -> convertArray(input)
      [] convertor.convertor = "integer" -> parseInt(input)
      [] convertor.convertor = "json" -> JSONparse(input)
      [] convertor.convertor = "identity" -> input

callConvertorLog(convertor, input) ==
    IF convertor.convertor = "boolean" THEN convertBooleanLog(convertor, input)
    ELSE <<>>

(***************************************************************************)
(* getMappings, helpers.js:259-280                                         *)
(***************************************************************************)
\* Object.assign({}, a, b) and a[key] = value
assign(a, b) ==
    Obj([k \in Keys(a) \cup Keys(b) |-> IF k \in Keys(b) THEN b.val[k] ELSE a.val[k]])
Put(object, key, value) ==
    Obj([k \in Keys(object) \cup {key} |-> IF k = key THEN value ELSE object.val[k]])

\* lines 266-270: element.cli.substr(2) throws when cli is no string
flagOf(element) == substr(element.cli.val, 2)
bindingOf(element) ==
    [type |-> "object",
     path |-> element.path,
     convertor |-> getConvertor(element.defaultValue, element.cli),
     validator |-> element.validator]

\* lines 264-271: group.objects.forEach from the i-th element on
RECURSIVE mapObjects(_, _, _)
mapObjects(objects, i, found) ==
    IF i > Len(objects) THEN found
    ELSE IF ~isString(objects[i].cli) THEN TypeError
    ELSE mapObjects(objects, i + 1, Put(found, flagOf(objects[i]), bindingOf(objects[i])))

\* lines 260-277: groups.forEach from the i-th group on
RECURSIVE mapGroups(_, _, _)
mapGroups(groups, i, found) ==
    IF i > Len(groups) THEN found
    ELSE LET own == mapObjects(groups[i].objects, 1, found)
             below == IF Throws(own) THEN own
                      ELSE mapGroups(groups[i].children, 1, EmptyObj)
         IN  IF Throws(below) THEN below
             ELSE mapGroups(groups, i + 1, assign(own, below))

recursiveHelper(groups) == mapGroups(groups, 1, EmptyObj)
getMappings(documentationObject) == recursiveHelper(documentationObject)

(***************************************************************************)
(* parseArguments and convert, helpers.js:323-346                          *)
(***************************************************************************)
\* validator(value) of the validators of the model
callValidator(validator, value) ==
    CASE validator.val = "isPort" -> value.type = "integer" /\ value.val > 0
      [] validator.val = "isBoolean" -> value.type = "boolean"
      [] validator.val = "isAnything" -> TRUE

\* convert: the value returned (undefined when the validator rejects) or the
\* exception thrown by the convertor or by calling what is no function
convert(value, mapping) ==
    LET val == callConvertor(mapping.convertor, value)
    IN  IF Throws(val) THEN val
        ELSE IF mapping.validator.type # "function" THEN TypeError
        ELSE IF callValidator(mapping.validator, val) THEN val
        ELSE Undefined

\* lodash set(object, path, value) for a path of dotted keys: the objects on
\* the way are kept or created, the last key is assigned, also to undefined
RECURSIVE setKeys(_, _, _)
setKeys(object, keys, value) ==
    IF Len(keys) = 1 THEN Put(object, keys[1], value)
    ELSE Put(object, keys[1],
             setKeys(IF isPlainObject(Get(object, keys[1]))
                     THEN Get(object, keys[1]) ELSE EmptyObj,
                     Tail(keys), value))
set(object, path, value) == setKeys(object, split(path, "."), value)

\* lines 326-334: forEach over the keys of args, from the i-th on; args is the
\* sequence of its [key, value] in key order. The state is the config built
\* and the lines written, or the exception thrown.
RECURSIVE bindEach(_, _, _, _)
bindEach(args, flags, i, state) ==
    IF i > Len(args) THEN state
    ELSE LET key == args[i].key
         IN  IF Truthy(Get(flags, key))
             THEN LET value == convert(args[i].value, flags.val[key])
                  IN  IF Throws(value) THEN value
                      ELSE bindEach(args, flags, i + 1,
                               [type |-> "return",
                                config |-> set(state.config, flags.val[key].path, value),
                                log |-> state.log
                                    \o callConvertorLog(flags.val[key].convertor,
                                                        args[i].value)])
             ELSE bindEach(args, flags, i + 1,
                      [state EXCEPT !.log = @ \o <<[kind |-> "unknown", name |-> key]>>])

parseArguments(args, flags) ==
    bindEach(args, flags, 1, [type |-> "return", config |-> EmptyObj, log |-> <<>>])

(***************************************************************************)
(* Inputs of buildCompleteConfig                                           *)
(***************************************************************************)
\* the longest explicit extension list
MaxExt == 2

\* All plain objects with keys among `keys` and values among `values`
ObjectsOver(keys, values) ==
    {Obj(f) : f \in UNION {[d -> values] : d \in SUBSET keys}}

Leaves == {Num(1), Num(2)}
SubTrees == ObjectsOver({"b"}, Leaves)

\* Configuration trees of extensions: the leaf a, or the tree a with leaf a.b
ExtConfigs == ObjectsOver({"a"}, Leaves \cup SubTrees)

\* Configuration trees of the application: those, and the leaf b
AppConfigs ==
    {merge(t, u) : t \in ExtConfigs, u \in ObjectsOver({"b"}, {Num(1)})}

\* Configuration trees the aggregation starts from
BaseConfigs == ObjectsOver({"a"}, {Num(1)} \cup ObjectsOver({"b"}, {Num(2)}))

\* The meta tree shadowing a configuration tree: a description per leaf
RECURSIVE Shadow(_)
Shadow(config) ==
    Obj([k \in Keys(config) |->
            IF isPlainObject(config.val[k]) THEN Shadow(config.val[k])
            ELSE Str(IF config.val[k] = Num(1) THEN "one" ELSE "two")])

Module(config) ==
    Obj([k \in {"baseConfig", "metaConfig"} |->
            IF k = "baseConfig" THEN config ELSE Shadow(config)])

\* What require(resolve.sync(name)) can yield: an exception, a module that
\* exports only one of baseConfig and metaConfig, or a module with both.
Outcomes ==
    {[type |-> "throw"]}
        \cup {Obj([k \in {"baseConfig"} |-> Obj([a \in {"a"} |-> Num(1)])]),
              Obj([k \in {"metaConfig"} |-> Obj([a \in {"a"} |-> Str("one")])])}
        \cup {Module(c) : c \in ExtConfigs}

NoPackage == [dependencies |-> Undefined, devDependencies |-> Undefined]
Table(names) == [type |-> "object", keys |-> names]
WithExtensions(appConfig, names) ==
    merge(appConfig,
          Obj([k \in {"extensions"} |-> Arr([i \in DOMAIN names |-> Str(names[i])])]))

\* The names roc-1, roc-2, ... of the extensions of the folding runs
FoldNames == <<"roc-1", "roc-2", "roc-3", "roc-4">>
FoldList(n) == SubSeq(FoldNames, 1, n)
Range(s) == {s[i] : i \in DOMAIN s}

Start ==
    /\ pc = "select"
    /\ pending = <<>>
    /\ scanned = FALSE
    /\ loaded = <<>>
    /\ finalConfig = baseInput.config
    /\ finalMeta = baseInput.meta
    /\ usedExtensions = <<>>
    /\ log = <<>>
    /\ given = Undefined
    /\ mappings = Undefined
    /\ result = Undefined

\* n extensions, each resolving to any outcome, listed by the application or
\* found among the dependencies; any application tree; any base tree.
InitAggregate ==
    /\ debug \in BOOLEAN
    /\ \E n \in 0..MaxExt, explicit \in BOOLEAN, app \in AppConfigs :
          /\ registry \in [Range(FoldList(n)) -> Outcomes]
          /\ IF explicit
             THEN /\ applicationConfig = WithExtensions(app, FoldList(n))
                  /\ packageJson = NoPackage
             ELSE /\ applicationConfig = app
                  /\ packageJson = [dependencies |-> Table(FoldList(n)),
                                    devDependencies |-> Undefined]
    /\ \E c \in BaseConfigs : baseInput = [config |-> c, meta |-> Shadow(c)]
    /\ Start

NextAggregate ==
    \/ UseExplicitExtensions
    \/ ScanDependencies
    \/ mergeExtension
    \/ ReturnCompleteConfig

SpecAggregate == InitAggregate /\ [][NextAggregate]_vars

\* Names that do and do not follow the naming convention of extensions
SelectNames == {"roc-a", "roc-b", "roc-", "rocket"}

\* The sequences over `names` of length at most n, and those without repeats
SeqsUpTo(names, n) == UNION {[1..k -> names] : k \in 0..n}
DistinctSeqsUpTo(names, n) ==
    {q \in SeqsUpTo(names, n) : \A i, j \in DOMAIN q : q[i] = q[j] => i = j}

\* A dependency table is absent or lists distinct names
Tables(n) == {Undefined} \cup {Table(q) : q \in DistinctSeqsUpTo(SelectNames, n)}

\* Any explicit list (none, empty, with repeats), any two dependency tables;
\* every name fails to resolve or resolves to the same module.
InitSelect ==
    /\ debug = FALSE
    /\ registry \in [SelectNames -> {[type |-> "throw"], Module(Obj([a \in {"a"} |-> Num(1)]))}]
    /\ \/ applicationConfig = EmptyObj
       \/ \E names \in SeqsUpTo(SelectNames, MaxExt) :
             applicationConfig = WithExtensions(EmptyObj, names)
    /\ \E deps \in Tables(2), devDeps \in Tables(1) :
          packageJson = [dependencies |-> deps, devDependencies |-> devDeps]
    /\ baseInput = [config |-> EmptyObj, meta |-> EmptyObj]
    /\ Start

SpecSelect == InitSelect /\ [][NextAggregate]_vars

(***************************************************************************)
(* Properties of buildCompleteConfig                                       *)
(***************************************************************************)
\* The value at a path (a sequence of keys) of a tree, or Absent
Absent == [type |-> "absent"]
RECURSIVE At(_, _)
At(tree, path) ==
    IF path = <<>> THEN tree
    ELSE IF isPlainObject(tree) /\ Head(path) \in Keys(tree)
         THEN At(tree.val[Head(path)], Tail(path))
         ELSE Absent

\* A leaf is a value that is there and is not a tree
IsLeafAt(tree, path) == At(tree, path) # Absent /\ ~isPlainObject(At(tree, path))

\* Every path of the trees of the model
PathKeys == {"a", "b", "extensions"}
Paths == [1..1 -> PathKeys] \cup [1..2 -> PathKeys]
LeafPaths(tree) == {path \in Paths : IsLeafAt(tree, path)}

RECURSIVE Dotted(_)
Dotted(path) ==
    IF Len(path) = 1 THEN path[1] ELSE path[1] \o "." \o Dotted(Tail(path))

\* An extension resolves when the lookup yields both trees
Succeeds(name) ==
    /\ registry[name].type = "object"
    /\ {"baseConfig", "metaConfig"} \subseteq DOMAIN registry[name].val

\* The list the application asks for: its own when it gives names, otherwise
\* the conventionally named dependencies.
IsConventional(name) == \E n \in 5..Len(name) : SubSeq(name, 1, 4) = "roc-"
ExplicitList ==
    IF "extensions" \in Keys(applicationConfig)
    THEN [i \in DOMAIN applicationConfig.val["extensions"].val |->
             applicationConfig.val["extensions"].val[i].val]
    ELSE <<>>
DeclaredDependencies ==
    (IF packageJson.dependencies = Undefined THEN <<>>
     ELSE packageJson.dependencies.keys)
        \o (IF packageJson.devDependencies = Undefined THEN <<>>
            ELSE packageJson.devDependencies.keys)
Listed ==
    IF ExplicitList # <<>> THEN ExplicitList
    ELSE SelectSeq(DeclaredDependencies, IsConventional)

\* The trees merged, in merge order: the base, the resolved extensions of a
\* list, and (for the final config) the application's tree.
ExtensionTrees(names, export) ==
    LET ok == SelectSeq(names, Succeeds)
    IN  [i \in DOMAIN ok |-> registry[ok[i]].val[export]]
ExtensionSources == <<baseInput.config>> \o ExtensionTrees(Listed, "baseConfig")
ConfigSources == ExtensionSources \o <<applicationConfig>>

Defining(sources, path) == {i \in DOMAIN sources : IsLeafAt(sources[i], path)}
LastOf(S) == CHOOSE i \in S : \A j \in S : j <= i

\* A later source displaces a path when it holds a leaf at a proper prefix of
\* the path or a tree at the path itself.
Displaces(tree, path) ==
    \/ isPlainObject(At(tree, path))
    \/ \E n \in 1..(Len(path) - 1) : IsLeafAt(tree, SubSeq(path, 1, n))
DisplacedAfter(sources, path, i) ==
    \E k \in DOMAIN sources : k > i /\ Displaces(sources[k], path)

\* Every path some source defines holds the value of the last source defining it
LastWins(tree, sources) ==
    \A path \in Paths :
        Defining(sources, path) # {} =>
            At(tree, path) = At(sources[LastOf(Defining(sources, path))], path)

\* The leaves of the tree are exactly the paths some source defines and no
\* later source displaces, each with the value of the last source defining it
LastWinsUnlessDisplaced(tree, sources) ==
    \A path \in Paths :
        LET def == Defining(sources, path)
        IN  IF def # {} /\ ~DisplacedAfter(sources, path, LastOf(def))
            THEN At(tree, path) = At(sources[LastOf(def)], path)
            ELSE ~IsLeafAt(tree, path)

\* C2 as stated: for every leaf path the returned config holds the value of
\* the application override if it defines the path, otherwise of the last
\* resolved extension defining it, otherwise of the base config; the returned
\* extensionConfig is the same without the application override.
C2_Precedence ==
    pc = "done" =>
        /\ LastWins(result.config, ConfigSources)
        /\ LastWins(result.extensionConfig, ExtensionSources)

\* C2 amended: the same for every leaf path that no source later in merge
\* order displaces (a leaf at a proper prefix of the path, or a tree at the
\* path); a displaced path is no leaf of the returned tree.
C2_PrecedenceUnlessDisplaced ==
    pc = "done" =>
        /\ LastWinsUnlessDisplaced(result.config, ConfigSources)
        /\ LastWinsUnlessDisplaced(result.extensionConfig, ExtensionSources)

\* C2 witness: the base, two resolved extensions and the application define
\* the same leaf with different values, and the application's value is returned
C2_Witness ==
    /\ pc = "done"
    /\ Len(ExtensionSources) = 3
    /\ \E path \in Paths :
          /\ Defining(ConfigSources, path) = {1, 2, 3, 4}
          /\ At(applicationConfig, path) # At(ExtensionSources[3], path)
          /\ At(ExtensionSources[3], path) # At(ExtensionSources[2], path)
          /\ At(result.config, path) = At(applicationConfig, path)
          /\ At(result.extensionConfig, path) = At(ExtensionSources[3], path)

\* The trees of a sequence merged from left to right
RECURSIVE Fold(_)
Fold(sources) ==
    IF Len(sources) = 1 THEN sources[1]
    ELSE merge(Fold(SubSeq(sources, 1, Len(sources) - 1)), sources[Len(sources)])

\* C7: extensions that fail to resolve contribute nothing to the running
\* config and meta, every listed extension is still visited in list order,
\* and what is returned is the fold over the resolved extensions alone.
C7_FailSoft ==
    pc = "done" =>
        /\ loaded = Listed
        /\ usedExtensions = SelectSeq(Listed, Succeeds)
        /\ result.extensionConfig = Fold(ExtensionSources)
        /\ result.meta =
               Fold(<<baseInput.meta>> \o ExtensionTrees(Listed, "metaConfig"))

\* C7 witness: an extension that throws is followed by one that resolves and
\* changes the config
C7_Witness ==
    /\ pc = "done"
    /\ Len(loaded) = 2
    /\ Throws(registry[loaded[1]])
    /\ Succeeds(loaded[2])
    /\ result.extensionConfig # baseInput.config
    /\ result.meta # baseInput.meta

\* The paths the mismatch diagnostic lists
ListedMismatches ==
    UNION {log[i].paths : i \in {j \in DOMAIN log : log[j].kind = "mismatch"}}

\* C3: every leaf path of the application override that the aggregated
\* configuration lacks is listed in the mismatch diagnostic, the aggregation
\* still returns, and the returned config holds every listed path with the
\* override's value.
C3_Mismatch ==
    pc = "done" =>
        /\ \A path \in LeafPaths(applicationConfig) :
              ~IsLeafAt(result.extensionConfig, path)
                  => Dotted(path) \in ListedMismatches
        /\ \A path \in Paths :
              Dotted(path) \in ListedMismatches
                  => /\ IsLeafAt(applicationConfig, path)
                     /\ At(result.config, path) = At(applicationConfig, path)

\* C3 witness: the override has a nested leaf the aggregated configuration
\* lacks; it is listed and returned with the override's value
C3_Witness ==
    /\ pc = "done"
    /\ \E path \in LeafPaths(applicationConfig) :
          /\ Len(path) = 2
          /\ ~IsLeafAt(result.extensionConfig, path)
          /\ At(result.extensionConfig, SubSeq(path, 1, 1)) # Absent
          /\ Dotted(path) \in ListedMismatches
          /\ At(result.config, path) = At(applicationConfig, path)

\* C8 as stated: with an explicit extension list in the application
\* configuration exactly its extensions are resolved, in listed order, and
\* the dependencies are not scanned; without one the conventionally named
\* runtime and development dependencies are resolved, in declared order.
C8_Selection ==
    pc = "done" =>
        IF "extensions" \in Keys(applicationConfig)
        THEN loaded = ExplicitList /\ ~scanned
        ELSE scanned /\ loaded = SelectSeq(DeclaredDependencies, IsConventional)

\* C8 amended: the same with "a non-empty explicit extension list"; an empty
\* list is treated as no list and the dependencies are scanned.
C8_SelectionNonEmpty ==
    pc = "done" =>
        IF ExplicitList # <<>>
        THEN loaded = ExplicitList /\ ~scanned
        ELSE scanned /\ loaded = SelectSeq(DeclaredDependencies, IsConventional)

\* C8 witness: an explicit list with an unconventional name is used as it is,
\* although conventionally named dependencies are declared
C8_Witness ==
    /\ pc = "done"
    /\ ExplicitList # <<>>
    /\ SelectSeq(DeclaredDependencies, IsConventional) # <<>>
    /\ loaded = ExplicitList
    /\ ~scanned
    /\ \E i \in DOMAIN loaded : ~IsConventional(loaded[i])

(***************************************************************************)
(* Calls of the pure functions: the arguments are drawn by the initial     *)
(* predicate, one step makes the call.                                     *)
(***************************************************************************)
Idle ==
    /\ applicationConfig = EmptyObj
    /\ packageJson = NoPackage
    /\ registry = [n \in {} |-> Undefined]
    /\ debug = FALSE
    /\ baseInput = [config |-> EmptyObj, meta |-> EmptyObj]
    /\ pending = <<>>
    /\ scanned = FALSE
    /\ loaded = <<>>
    /\ finalConfig = EmptyObj
    /\ finalMeta = EmptyObj
    /\ usedExtensions = <<>>
    /\ log = <<>>
    /\ result = Undefined

unchangedAggregation ==
    UNCHANGED <<applicationConfig, packageJson, registry, debug, baseInput,
                pending, scanned, loaded, finalConfig, finalMeta,
                usedExtensions>>

\* the longest options list of a command, the longest positional sequence
MaxOptions == 2
MaxPositionals == 3

OptionNames == {"name", "dir"}
Positionals == {Str(""), Str("x"), Str("y")}
Validation(accepts) == [type |-> "function", accepts |-> accepts]
Validations ==
    {Undefined, Validation({Str("x")}), Validation({Str("x"), Str("y"), Undefined})}
OptionSpecs ==
    [name : OptionNames, required : BOOLEAN, validation : Validations]

\* The meta of the commands: the command "run" is unknown, has no options
\* property, or declares a list of options
CommandMetas ==
    {EmptyObj, Obj([c \in {"run"} |-> EmptyObj])}
        \cup {Obj([c \in {"run"} |-> Obj([o \in {"options"} |-> Arr(declared)])]) :
                 declared \in SeqsUpTo(OptionSpecs, MaxOptions)}

InitOptions ==
    /\ pc = "call"
    /\ mappings = Undefined
    /\ \E meta \in CommandMetas, options \in SeqsUpTo(Positionals, MaxPositionals) :
          given = [command |-> "run", meta |-> meta, options |-> options]
    /\ Idle

ParseOptions ==
    /\ pc = "call"
    /\ result' = parseOptions(given.command, given.meta, given.options)
    /\ pc' = "done"
    /\ UNCHANGED <<given, mappings, log>>
    /\ unchangedAggregation

NextOptions == ParseOptions

SpecOptions == InitOptions /\ [][NextOptions]_vars

(***************************************************************************)
(* Properties of parseOptions                                              *)
(***************************************************************************)
\* The options the command of the call declares, if it declares any
Declares ==
    /\ "run" \in Keys(given.meta)
    /\ "options" \in Keys(given.meta.val["run"])
Declared == given.meta.val["run"].val["options"].val

\* The declared options that are required and have no positional value
MissingRequired ==
    {i \in DOMAIN Declared : Declared[i].required /\ i > Len(given.options)}

\* The positional value of the i-th declared option, absent or empty counted
\* as none
ValueOf(i) == IF i <= Len(given.options) THEN given.options[i] ELSE Undefined
HasNoValue(i) == ValueOf(i) \in {Undefined, Str("")}
Rejected(i) ==
    /\ Declared[i].validation # Undefined
    /\ ValueOf(i) \notin Declared[i].validation.accepts
Failing == {i \in DOMAIN Declared : (Declared[i].required /\ HasNoValue(i)) \/ Rejected(i)}
FirstFailing == CHOOSE i \in Failing : \A j \in Failing : i <= j

\* C4 as stated: a required option without a positional value aborts the
\* parse with the missing-required error naming such an option, and nothing
\* is returned; one required option and one positional value give
\* {arguments: {name: value}, rest: []}.
C4_RequiredOption ==
    (pc = "done" /\ Declares) =>
        /\ MissingRequired # {} =>
              /\ result.type = "throw"
              /\ result.error = "required"
              /\ \E i \in MissingRequired : result.option = Declared[i].name
        /\ (Len(Declared) = 1 /\ Declared[1].required /\ Len(given.options) = 1) =>
              /\ result.type = "return"
              /\ result.arguments = Obj([k \in {Declared[1].name} |-> given.options[1]])
              /\ result.rest = <<>>

\* C4 amended: the parse aborts at the first declared option that is required
\* with an absent or empty value (missing-required error naming it) or whose
\* validation rejects its value (validation-failed error naming it), and
\* returns nothing; so a required option without a positional value always
\* aborts the parse. One required option without validation and one non-empty
\* positional value give {arguments: {name: value}, rest: []}.
C4_FirstFailingOption ==
    (pc = "done" /\ Declares) =>
        /\ IF Failing # {}
           THEN /\ result.type = "throw"
                /\ result.option = Declared[FirstFailing].name
                /\ result.error =
                       IF Declared[FirstFailing].required /\ HasNoValue(FirstFailing)
                       THEN "required" ELSE "validation"
           ELSE result.type = "return"
        /\ MissingRequired # {} => result.type = "throw"
        /\ (/\ Len(Declared) = 1
            /\ Declared[1].required
            /\ Declared[1].validation = Undefined
            /\ Len(given.options) = 1
            /\ given.options[1] # Str("")) =>
              /\ result.type = "return"
              /\ result.arguments = Obj([k \in {Declared[1].name} |-> given.options[1]])
              /\ result.rest = <<>>

\* C4 witness: the second of two required options has no value and the parse
\* aborts naming it
C4_Witness ==
    /\ pc = "done"
    /\ Declares
    /\ Len(Declared) = 2
    /\ Len(given.options) = 1
    /\ MissingRequired = {2}
    /\ Declared[1].name # Declared[2].name
    /\ result.type = "throw"
    /\ result.error = "required"
    /\ result.option = Declared[2].name

\* C5: when the parse does not abort, the i-th declared option's name is
\* bound to the i-th positional (to undefined when there is none), and rest
\* is the positionals after the first k, k the number of declared options;
\* without declared options rest is the whole positional sequence.
C5_Consumption ==
    (pc = "done" /\ result.type = "return") =>
        IF Declares
        THEN /\ \A i \in DOMAIN Declared :
                   Get(result.arguments, Declared[i].name) = ValueOf(i)
             /\ result.rest =
                    [i \in 1..(Len(given.options) - Len(Declared)) |->
                        given.options[Len(Declared) + i]]
        ELSE result.rest = given.options

(***************************************************************************)
(* Calls of getMappings and parseArguments                                 *)
(***************************************************************************)
\* the most elements of a group, the most flags of a command line
MaxObjects == 1
MaxArgs == 2

\* Documentation elements: a leaf has a flag or none (no FieldMeta), and a
\* validator or none
Elements ==
    [cli : {Undefined, Str("--port"), Str("--dev-port")},
     path : {"port", "dev.port"},
     defaultValue : {Num(80), Bool(FALSE)},
     validator : {Undefined, Func("isPort")}]

\* Documentation trees: at most one group, with at most one group below it,
\* each of at most n elements
LeafGroups(n) ==
    {[objects |-> objects, children |-> <<>>] :
        objects \in SeqsUpTo(Elements, n)}
Groups(n) ==
    {[objects |-> objects, children |-> children] :
        objects \in SeqsUpTo(Elements, n),
        children \in SeqsUpTo(LeafGroups(n), 1)}
DocumentationObjects(n) == SeqsUpTo(Groups(n), 1)

\* Raw flags: an object with distinct keys, in key order
FlagKeys == {"port", "dev-port", "other"}
RawValues == {Str("8080"), Str("-1"), Bool(TRUE)}
RawArgs ==
    {args \in SeqsUpTo([key : FlagKeys, value : RawValues], MaxArgs) :
        \A i, j \in DOMAIN args : args[i].key = args[j].key => i = j}

InitFlags ==
    /\ pc = "call"
    /\ mappings = Undefined
    /\ \E documentationObject \in DocumentationObjects(MaxObjects), args \in RawArgs :
          given = [documentationObject |-> documentationObject, args |-> args]
    /\ Idle

\* The call getMappings(documentationObject)
GetMappings ==
    /\ pc = "call"
    /\ mappings' = getMappings(given.documentationObject)
    /\ pc' = IF Throws(mappings') THEN "done" ELSE "mapped"
    /\ result' = IF Throws(mappings') THEN mappings' ELSE result
    /\ UNCHANGED <<given, log>>
    /\ unchangedAggregation

\* What a call of parseArguments returns or throws, and what it writes
returnedConfig(parsed) ==
    IF Throws(parsed) THEN parsed ELSE [type |-> "return", config |-> parsed.config]
writtenLines(parsed) == IF Throws(parsed) THEN <<>> ELSE parsed.log

\* The call parseArguments(args, mappings)
ParseArguments ==
    /\ pc = "mapped"
    /\ result' = returnedConfig(parseArguments(given.args, mappings))
    /\ log' = log \o writtenLines(parseArguments(given.args, mappings))
    /\ pc' = "done"
    /\ UNCHANGED <<given, mappings>>
    /\ unchangedAggregation

NextFlags == GetMappings \/ ParseArguments

SpecFlags == InitFlags /\ [][NextFlags]_vars

(***************************************************************************)
(* Calls of getConvertor and of the convertor it returns                   *)
(***************************************************************************)
DefaultValues ==
    {Bool(TRUE), Bool(FALSE), Arr(<<>>), Arr(<<Str("a")>>), Num(0), Num(80),
     Fraction(3, 2), Str(""), Str("text"), Undefined, Null, EmptyObj,
     Obj([k \in {"a"} |-> Num(1)])}
ConvertorInputs ==
    {Str("true"), Str("false"), Str("yes"), Str("42"), Str("abc"), Str("a,b,c"),
     Str("[\"a\",\"b\"]"), Str("{}"), Str("2.5"), Str(""), Bool(TRUE)}

InitConvertor ==
    /\ pc = "call"
    /\ mappings = Undefined
    /\ \E defaultValue \in DefaultValues, raw \in ConvertorInputs :
          given = [defaultValue |-> defaultValue, name |-> Str("--flag"), input |-> raw]
    /\ Idle

\* The call getConvertor(value, name)
GetConvertor ==
    /\ pc = "call"
    /\ result' = getConvertor(given.defaultValue, given.name)
    /\ pc' = "selected"
    /\ UNCHANGED <<given, mappings, log>>
    /\ unchangedAggregation

\* The call of the convertor returned
CallConvertor ==
    /\ pc = "selected"
    /\ result' = [type |-> "return", convertor |-> result,
                  output |-> callConvertor(result, given.input)]
    /\ log' = log \o callConvertorLog(result, given.input)
    /\ pc' = "done"
    /\ UNCHANGED <<given, mappings>>
    /\ unchangedAggregation

NextConvertor == GetConvertor \/ CallConvertor

SpecConvertor == InitConvertor /\ [][NextConvertor]_vars

(***************************************************************************)
(* Properties of getConvertor, getMappings and parseArguments              *)
(***************************************************************************)
\* The convertor the selection rule names for a default value: boolean,
\* sequence, integer, then the empty or absent tree-shaped placeholder, and
\* the identity for everything else
IsPlaceholder(value) == value \in {Undefined, Null, EmptyObj}
RuleFor(value) ==
    CASE value.type = "boolean" -> "boolean"
      [] value.type = "array" -> "array"
      [] value.type = "integer" -> "integer"
      [] IsPlaceholder(value) -> "json"
      [] OTHER -> "identity"

\* C6: the convertor of a default is the one the rule names; a string, a
\* non-empty tree and a number with a fractional part get the identity
\* convertor, which returns its input unchanged.
C6_ConvertorRule ==
    pc = "done" =>
        /\ result.convertor.convertor = RuleFor(given.defaultValue)
        /\ (\/ given.defaultValue.type \in {"string", "fraction"}
            \/ (given.defaultValue.type = "object" /\ given.defaultValue # EmptyObj))
              => result.output = given.input

\* The elements of the groups of a documentation tree, at any depth
RECURSIVE ElementsOf(_)
ElementsOf(groups) ==
    UNION {Range(groups[i].objects) \cup ElementsOf(groups[i].children) :
              i \in DOMAIN groups}

\* The flag names the elements of the tree carry
CliNames ==
    {SubSeq(e.cli.val, 3, Len(e.cli.val)) :
        e \in {x \in ElementsOf(given.documentationObject) :
                  x.cli # Undefined /\ Len(x.cli.val) > 2}}

\* C9: flattening never fails, and the mapping binds a flag name exactly when
\* some node of the tree carries it as its cliName; a leaf without cliName
\* binds nothing.
C9_Flatten ==
    pc # "call" =>
        /\ ~Throws(mappings)
        /\ Keys(mappings) = CliNames

\* The raw flags bound to an element, and the path keys they are written at
Bound(i) == given.args[i].key \in Keys(mappings)
BindingOf(i) == mappings.val[given.args[i].key]
PathOf(i) == split(BindingOf(i).path, ".")
Coerced(i) == callConvertor(BindingOf(i).convertor, given.args[i].value)
Rejects(i) ==
    /\ BindingOf(i).validator # Undefined
    /\ ~callValidator(BindingOf(i).validator, Coerced(i))
LastAt(i) ==
    \A j \in DOMAIN given.args : (Bound(j) /\ PathOf(j) = PathOf(i)) => j <= i

\* C1: when the validator rejects the coerced value of every flag bound to a
\* path, the patch returned has no entry at that path, not even undefined.
C1_RejectedOmitted ==
    (pc = "done" /\ ~Throws(mappings) /\ ~Throws(result)) =>
        \A i \in DOMAIN given.args :
            (/\ Bound(i)
             /\ \A j \in DOMAIN given.args :
                   (Bound(j) /\ PathOf(j) = PathOf(i)) => Rejects(j))
                => At(result.config, PathOf(i)) = Absent

\* C10: a flag whose node declares no validator is accepted whatever its
\* coerced value: parseArguments raises no error and writes the value at the
\* bound path.
C10_DefaultValidator ==
    (pc = "done" /\ ~Throws(mappings)) =>
        \A i \in DOMAIN given.args :
            (Bound(i) /\ BindingOf(i).validator = Undefined) =>
                /\ ~Throws(result)
                /\ LastAt(i) => At(result.config, PathOf(i)) = Coerced(i)

====
